---- MODULE Spec2Model ----
(***************************************************************************)
(* Memory manager of hairr OS (libs/memory-manager/src/lib.rs).            *)
(*                                                                         *)
(* The manager keeps five pieces of shared state, each behind its own      *)
(* mutex: the free-byte counter, the free-page list, the used-page map,    *)
(* the region ledger and the virtual mapping table.                        *)
(*                                                                         *)
(* Scaling.  PAGE_SIZE is the program's 4096.  The machine word (usize) is *)
(* modelled with USIZE_BITS bits instead of 64 and a "megabyte" of         *)
(* new(total_memory_mb) holds one page instead of 256, so that the pool    *)
(* has a handful of pages and request sizes reach the top of the word.     *)
(* All arithmetic on usize values is done modulo 2^USIZE_BITS where the    *)
(* code's arithmetic can overflow.  A run of the single caller makes at    *)
(* most MaxCalls calls; the threads start after at most MaxSetup calls.     *)
(***************************************************************************)
EXTENDS Integers, Sequences, FiniteSets, TLC

\* ---------------------------------------------------------------- bounds
USIZE_BITS == 16
MaxMB == 3
MaxCalls == 5
MaxSetup == 4
MaxDeep == 11
MaxMappings == 2
MaxPrior == 2
MaxPair == 7

\* ------------------------------------------------------ program constants
PAGE_SIZE == 4096

USIZE_MOD == 2 ^ USIZE_BITS
USIZE_MAX == USIZE_MOD - 1
\* 1024 * 1024 at line 101, scaled to one page
BytesPerMB == PAGE_SIZE

\* ProcessId(u64): the processes that call the manager
ProcessId == {1, 2}

\* the threads that call the manager concurrently; thread t calls for process t
Threads == {1, 2}

\* the five Arc<Mutex<..>> fields (lines 87-95)
Mutexes == {"free_memory", "allocated_regions", "virtual_mappings",
            "free_pages", "used_pages"}

\* MemoryRegion { start, size }
MemoryRegion(start, size) == [start |-> start, size |-> size]

VARIABLES
    overflow_checks,    \* build profile: TRUE = arithmetic overflow panics (debug),
                        \* FALSE = it wraps (release)
    total_memory,       \* MemoryManager.total_memory
    free_memory,        \* MemoryManager.free_memory
    allocated_regions,  \* MemoryManager.allocated_regions : ProcessId -> Vec<MemoryRegion>
    virtual_mappings,   \* MemoryManager.virtual_mappings  : ProcessId -> Vec<VirtualMapping>
    free_pages,         \* MemoryManager.free_pages        : Vec<Address>
    used_pages,         \* MemoryManager.used_pages        : Address -> ProcessId
    last,               \* the call made last by the single caller and what it returned
    calls,              \* number of calls made so far
    pc,                 \* per thread: where it stands in its call
    frame,              \* per thread: arguments and locals of its call
    ret,                \* per thread: what its call returned
    owner,              \* per mutex: the thread holding it, 0 when free
    poisoned            \* the mutexes a panicking thread held

mgr == <<total_memory, free_memory, allocated_regions, virtual_mappings,
         free_pages, used_pages>>
conc == <<pc, frame, ret, owner, poisoned>>
vars == <<overflow_checks, total_memory, free_memory, allocated_regions,
          virtual_mappings, free_pages, used_pages, last, calls,
          pc, frame, ret, owner, poisoned>>

\* ------------------------------------------------------------- helpers
EmptyMap == [x \in {} |-> 0]

\* HashMap::insert
MapInsert(m, k, v) == [x \in (DOMAIN m) \cup {k} |-> IF x = k THEN v ELSE m[x]]

\* HashMap::remove
MapRemove(m, k) == [x \in (DOMAIN m) \ {k} |-> m[x]]

\* Vec::remove(pos)
VecRemove(s, pos) == [i \in 1 .. Len(s) - 1 |-> IF i < pos THEN s[i] ELSE s[i + 1]]

RECURSIVE SumSizes(_)
SumSizes(regions) ==
    IF regions = <<>> THEN 0
    ELSE Head(regions).size + SumSizes(Tail(regions))

\* (size + PAGE_SIZE - 1) & !(PAGE_SIZE - 1) on the machine word (wrapping)
AlignedSize(size) ==
    LET sum == (size + PAGE_SIZE - 1) % USIZE_MOD
    IN  sum - (sum % PAGE_SIZE)

\* whether size + PAGE_SIZE - 1 overflows the machine word
AlignOverflows(size) == size + PAGE_SIZE - 1 > USIZE_MAX

\* an allocate without its zero-size check
IsZeroRequest_Unchecked(size) == FALSE

\* if size == 0 (line 121)
IsZeroRequest(size) == size = 0

\* *free_memory -= aligned_size (line 148)
Debit(free, aligned_size) == free - aligned_size

\* a release that forgets to give the bytes back
Credit_Forgotten(free, size) == free

\* *self.free_memory.lock().unwrap() += region.size (lines 180, 204)
Credit(free, size) == free + size

\* a lookup that creates the entry it looks for (entry().or_default() for get)
EarlyReturn_EntryCreated(st, process_id, res) ==
    [st |-> [st EXCEPT !.allocated_regions =
                IF process_id \in DOMAIN @ THEN [@ EXCEPT ![process_id] = <<>>]
                ELSE [x \in (DOMAIN @) \cup {process_id} |->
                        IF x = process_id THEN <<>> ELSE @[x]]],
     res |-> res]

\* .ok_or("...")? of free and free_all (lines 162, 166, 188): the error is
\* returned before anything is changed
EarlyReturn(st, process_id, res) == [st |-> st, res |-> res]

\* number of pages Vec::remove(0) takes at lines 139-146: the first one
\* unconditionally, then one per iteration of 1..num_pages
PagesTaken(num_pages) == IF num_pages = 0 THEN 1 ELSE num_pages

\* first n entries of the free list, in list order
FrontPages(fp, n) == SubSeq(fp, 1, n)

\* used_pages.insert(page, process_id) for each page of the sequence
MarkUsed(up, pages, process_id) ==
    [a \in (DOMAIN up) \cup { pages[i] : i \in DOMAIN pages } |->
        IF \E i \in DOMAIN pages : pages[i] = a THEN process_id ELSE up[a]]

\* allocated.entry(process_id).or_insert_with(Vec::new).push(region)
Record_Merges(ledger, process_id, region) ==
    IF process_id \in DOMAIN ledger
    THEN LET regions == ledger[process_id]
             n == Len(regions)
         IN  IF n > 0 /\ regions[n].start + regions[n].size = region.start
             THEN [ledger EXCEPT ![process_id] =
                      [regions EXCEPT ![n] =
                          MemoryRegion(regions[n].start, regions[n].size + region.size)]]
             ELSE [ledger EXCEPT ![process_id] = Append(@, region)]
    ELSE MapInsert(ledger, process_id, <<region>>)

Record(ledger, process_id, region) ==
    IF process_id \in DOMAIN ledger
    THEN [ledger EXCEPT ![process_id] = Append(@, region)]
    ELSE MapInsert(ledger, process_id, <<region>>)

\* regions.iter().position(|r| *r == region): 0 when there is none
Position_BySize(regions, region) ==
    IF \E i \in DOMAIN regions : regions[i].size = region.size
    THEN CHOOSE i \in DOMAIN regions :
            /\ regions[i].size = region.size
            /\ \A j \in 1 .. i - 1 : regions[j].size # region.size
    ELSE 0

Position_ByStart(regions, region) ==
    IF \E i \in DOMAIN regions : regions[i].start = region.start
    THEN CHOOSE i \in DOMAIN regions :
            /\ regions[i].start = region.start
            /\ \A j \in 1 .. i - 1 : regions[j].start # region.start
    ELSE 0

Position(regions, region) ==
    IF \E i \in DOMAIN regions : regions[i] = region
    THEN CHOOSE i \in DOMAIN regions :
            /\ regions[i] = region
            /\ \A j \in 1 .. i - 1 : regions[j] # region
    ELSE 0

\* the loop of free / free_all over one region: iteration i computes
\* region.start + i * PAGE_SIZE; the addition may overflow the word
PageAddr(region, i) == (region.start + i * PAGE_SIZE) % USIZE_MOD
PageAddrOverflows(region, i) == region.start + i * PAGE_SIZE > USIZE_MAX

\* iterations the loop completes: all num_pages of them, or, when overflow
\* checks are on, those before the first overflowing address
Iterations(region, checks) ==
    LET num_pages == region.size \div PAGE_SIZE
        bad == { i \in 0 .. num_pages - 1 : PageAddrOverflows(region, i) }
    IN  IF checks /\ bad # {}
        THEN CHOOSE i \in bad : \A j \in bad : i <= j
        ELSE num_pages

\* used_pages.remove(&page_addr); free_pages.push(page_addr) for iterations 0..n-1
ReturnPages(fp, up, region, n) ==
    LET pages == [i \in 1 .. n |-> PageAddr(region, i - 1)]
    IN  [fp |-> fp \o pages,
         up |-> [a \in (DOMAIN up) \ { pages[i] : i \in 1 .. n } |-> up[a]]]

\* the loop of free_all over the regions of the process, lines 194-202
RECURSIVE ReturnAll(_, _, _, _, _)
ReturnAll(regions, fp, up, total_freed, checks) ==
    IF regions = <<>>
    THEN [fp |-> fp, up |-> up, total_freed |-> total_freed, panic |-> FALSE]
    ELSE LET region == Head(regions)
             n == Iterations(region, checks)
             r == ReturnPages(fp, up, region, n)
         IN  IF n < region.size \div PAGE_SIZE
             THEN [fp |-> r.fp, up |-> r.up, total_freed |-> total_freed, panic |-> TRUE]
             ELSE ReturnAll(Tail(regions), r.fp, r.up, total_freed + region.size, checks)

NoRegion == MemoryRegion(0, 0)

\* allocated.remove(&process_id) (line 188): the process leaves the ledger
Forget_FirstRegionOnly(ledger, process_id) ==
    IF Len(ledger[process_id]) > 1
    THEN [ledger EXCEPT ![process_id] = Tail(@)]
    ELSE MapRemove(ledger, process_id)

Forget_EntryKept(ledger, process_id) == ledger

Forget(ledger, process_id) == MapRemove(ledger, process_id)

\* virtual_mappings.remove(&process_id) (line 207)
Unmap_All(table, process_id) == EmptyMap

Unmap_EntryKept(table, process_id) == table

Unmap(table, process_id) == MapRemove(table, process_id)

\* the regions recorded under a process, none for a process not in the ledger
RegionsOf(ledger, process_id) ==
    IF process_id \in DOMAIN ledger
    THEN { ledger[process_id][i] : i \in DOMAIN ledger[process_id] }
    ELSE {}

\* process_memory (lines 273-279): the sum of the sizes of the regions of
\* the process, 0 for a process the ledger does not hold
ProcessMemory(ledger, process_id) ==
    IF process_id \in DOMAIN ledger THEN SumSizes(ledger[process_id]) ELSE 0

\* list_processes (lines 282-284): the keys of the ledger, in no order
list_processes(ledger) == DOMAIN ledger

\* the mappings of a process (mappings.get(&process_id), line 241), none
\* for a process the table does not hold
MappingsOf(table, process_id) ==
    IF process_id \in DOMAIN table THEN table[process_id] ELSE <<>>

\* what the caller could observe of the manager before its call: the free
\* bytes, process_memory(pid) and the number of mappings of pid
Summary(st, process_id) ==
    [free_memory |-> st.free_memory,
     process_memory |-> ProcessMemory(st.allocated_regions, process_id),
     mappings |-> Len(MappingsOf(st.virtual_mappings, process_id))]

Call(op, process_id, size, region, res) ==
    [op |-> op, pid |-> process_id, size |-> size, region |-> region, res |-> res]

\* ------------------------------------------------------------ new (100-117)
InitialFreePages(num_pages) == [i \in 1 .. num_pages |-> (i - 1) * PAGE_SIZE]

\* line 101: the product is a product of the machine word
NewOverflows(total_memory_mb) == total_memory_mb * BytesPerMB > USIZE_MAX

new(total_memory_mb) ==
    LET total == (total_memory_mb * BytesPerMB) % USIZE_MOD
    IN  /\ total_memory = total
        /\ free_memory = total
        /\ allocated_regions = EmptyMap
        /\ virtual_mappings = EmptyMap
        /\ free_pages = InitialFreePages(total \div PAGE_SIZE)
        /\ used_pages = EmptyMap

NoFrame == [size |-> 0, aligned_size |-> 0, num_pages |-> 0, start_addr |-> 0]
NoReturn == [res |-> "", region |-> NoRegion]

\* MemoryStats (lines 262-269)
MemoryStats(total, free, n_free_pages, n_used_pages) ==
    [total_memory |-> total,
     used_memory |-> (total - free) % USIZE_MOD,
     free_memory |-> free,
     total_pages |-> total \div PAGE_SIZE,
     used_pages |-> n_used_pages,
     free_pages |-> n_free_pages]

\* stats() called while no other call is in progress (lines 256-270)
stats(total, st) ==
    MemoryStats(total, st.free_memory, Len(st.free_pages),
                Cardinality(DOMAIN st.used_pages))

\* MemoryStats::usage_percent (lines 299-301): an f32 quotient times 100;
\* a finite value is kept as the exact fraction num / den in lowest terms,
\* and a quotient with divisor 0.0 is NaN (0.0 / 0.0) or infinite
RECURSIVE GCD(_, _)
GCD(a, b) == IF b = 0 THEN a ELSE GCD(b, a % b)

Percent(num, den) ==
    [class |-> "finite", num |-> num \div GCD(num, den), den |-> den \div GCD(num, den)]
NaN == [class |-> "nan", num |-> 0, den |-> 0]
Infinity == [class |-> "inf", num |-> 0, den |-> 0]

usage_percent(st) ==
    IF st.total_memory = 0
    THEN IF st.used_memory = 0 THEN NaN ELSE Infinity
    ELSE Percent(st.used_memory * 100, st.total_memory)

\* what a call that is not a query returns besides its result
NoValue == [none |-> TRUE]

\* a query: its argument, and the value it returns
Query(op, process_id, arg, res, value) ==
    [op |-> op, pid |-> process_id, size |-> arg, region |-> NoRegion, res |-> res,
     value |-> value]

\* the manager as a record, for the results of the calls
State ==
    [free_memory |-> free_memory, allocated_regions |-> allocated_regions,
     virtual_mappings |-> virtual_mappings, free_pages |-> free_pages,
     used_pages |-> used_pages]

\* a call, its result and value, what was observable before it, and what
\* stats() returns, the ledger holds and the manager is after it
Observed(call, before, after) ==
    [op |-> call.op, pid |-> call.pid, size |-> call.size, region |-> call.region,
     res |-> call.res,
     value |-> IF "value" \in DOMAIN call THEN call.value ELSE NoValue,
     before |-> Summary(before, call.pid),
     stats |-> stats(total_memory, after),
     ledger |-> after.allocated_regions,
     after |-> after]

\* the arguments of new: pools of 0 .. MaxMB pages, and the first size
\* whose byte count does not fit the machine word
NewInputs == (0 .. MaxMB) \cup {USIZE_MOD \div BytesPerMB}

\* the manager exists when new has returned: with overflow checks an
\* overflowing new(N) panics and there is no manager
Init ==
    /\ overflow_checks \in BOOLEAN
    /\ \E total_memory_mb \in NewInputs :
            /\ ~(overflow_checks /\ NewOverflows(total_memory_mb))
            /\ new(total_memory_mb)
            /\ last = [op |-> "new", pid |-> 0, size |-> total_memory_mb,
                       region |-> NoRegion, res |-> "Ok", value |-> NoValue,
                       before |-> [free_memory |-> 0, process_memory |-> 0,
                                   mappings |-> 0],
                       stats |-> MemoryStats(total_memory, total_memory,
                                             total_memory \div PAGE_SIZE, 0),
                       ledger |-> EmptyMap,
                       after |-> State]
    /\ calls = 0
    /\ pc = [t \in Threads |-> "idle"]
    /\ frame = [t \in Threads |-> NoFrame]
    /\ ret = [t \in Threads |-> NoReturn]
    /\ owner = [m \in Mutexes |-> 0]
    /\ poisoned = {}

\* a call can be made: the caller has not panicked, and the run is not over
CanCall ==
    /\ last.res # "panic"
    /\ calls < MaxCalls
    /\ \A t \in Threads : pc[t] = "idle"

Return(st, call) ==
    /\ free_memory' = st.free_memory
    /\ allocated_regions' = st.allocated_regions
    /\ virtual_mappings' = st.virtual_mappings
    /\ free_pages' = st.free_pages
    /\ used_pages' = st.used_pages
    /\ last' = Observed(call, State, st)
    /\ calls' = calls + 1
    /\ UNCHANGED <<overflow_checks, total_memory>>
    /\ UNCHANGED conc

\* ------------------------------------------------------ allocate (120-157)
AllocateResult(st, process_id, size, checks) ==
    IF IsZeroRequest(size)
    THEN [st |-> st, region |-> NoRegion, res |-> "Cannot allocate zero bytes"]
    ELSE IF checks /\ AlignOverflows(size)
    THEN [st |-> st, region |-> NoRegion, res |-> "panic"]
    ELSE
    LET aligned_size == AlignedSize(size)
        num_pages == aligned_size \div PAGE_SIZE
        taken == FrontPages(st.free_pages, PagesTaken(num_pages))
        region == MemoryRegion(st.free_pages[1], aligned_size)
    IN  IF st.free_memory < aligned_size
        THEN [st |-> st, region |-> NoRegion, res |-> "Out of memory"]
        ELSE IF Len(st.free_pages) < num_pages
        THEN [st |-> st, region |-> NoRegion, res |-> "Out of memory pages"]
        ELSE IF st.free_pages = <<>>
        THEN [st |-> st, region |-> NoRegion, res |-> "panic"]
        ELSE [st |-> [st EXCEPT
                        !.free_pages = SubSeq(@, Len(taken) + 1, Len(@)),
                        !.used_pages = MarkUsed(@, taken, process_id),
                        !.free_memory = Debit(@, aligned_size),
                        !.allocated_regions = Record(@, process_id, region)],
              region |-> region, res |-> "Ok"]

allocate(process_id, size) ==
    LET r == AllocateResult(State, process_id, size, overflow_checks)
    IN  Return(r.st, Call("allocate", process_id, size, r.region, r.res))

Allocate(process_id, size) == CanCall /\ allocate(process_id, size)

\* ---------------------------------------------------------- free (160-183)
FreeResult(st, process_id, region, checks) ==
    IF process_id \notin DOMAIN st.allocated_regions
    THEN EarlyReturn(st, process_id, "Process not found")
    ELSE
    LET regions == st.allocated_regions[process_id]
        pos == Position(regions, region)
        n == Iterations(region, checks)
        r == ReturnPages(st.free_pages, st.used_pages, region, n)
        removed == [st EXCEPT !.allocated_regions[process_id] = VecRemove(@, pos),
                              !.free_pages = r.fp,
                              !.used_pages = r.up]
    IN  IF pos = 0
        THEN EarlyReturn(st, process_id, "Region not found")
        ELSE IF n < region.size \div PAGE_SIZE
        THEN [st |-> removed, res |-> "panic"]
        ELSE [st |-> [removed EXCEPT !.free_memory = Credit(@, region.size)], res |-> "Ok"]

free(process_id, region) ==
    LET r == FreeResult(State, process_id, region, overflow_checks)
    IN  Return(r.st, Call("free", process_id, 0, region, r.res))

Free(process_id, region) == CanCall /\ free(process_id, region)

\* ------------------------------------------------------ free_all (186-210)
FreeAllResult(st, process_id, checks) ==
    IF process_id \notin DOMAIN st.allocated_regions
    THEN EarlyReturn(st, process_id, "Process not found")
    ELSE
    LET regions == st.allocated_regions[process_id]
        r == ReturnAll(regions, st.free_pages, st.used_pages, 0, checks)
        removed == [st EXCEPT !.allocated_regions = Forget(@, process_id),
                              !.free_pages = r.fp,
                              !.used_pages = r.up]
    IN  IF r.panic
        THEN [st |-> removed, res |-> "panic"]
        ELSE [st |-> [removed EXCEPT
                        !.free_memory = Credit(@, r.total_freed),
                        !.virtual_mappings = Unmap(@, process_id)],
              res |-> "Ok"]

free_all(process_id) ==
    LET r == FreeAllResult(State, process_id, overflow_checks)
    IN  Return(r.st, Call("free_all", process_id, 0, NoRegion, r.res))

FreeAll(process_id) == CanCall /\ free_all(process_id)

\* --------------------------------------------------- map_virtual (213-232)
\* MemoryProtection::read_only / read_write / read_execute (lines 45-67)
read_only == [readable |-> TRUE, writable |-> FALSE, executable |-> FALSE]
read_write == [readable |-> TRUE, writable |-> TRUE, executable |-> FALSE]
read_execute == [readable |-> TRUE, writable |-> FALSE, executable |-> TRUE]

VirtualMapping(virtual_addr, physical_addr, size, protection) ==
    [virtual_addr |-> virtual_addr, physical_addr |-> physical_addr,
     size |-> size, protection |-> protection]

\* mappings.entry(process_id).or_insert_with(Vec::new).push(mapping)
MapVirtualResult_TakesPages(st, process_id, mapping) ==
    [st |-> [st EXCEPT
                !.virtual_mappings =
                    MapInsert(@, process_id, Append(MappingsOf(@, process_id), mapping)),
                !.used_pages = MapInsert(@, mapping.physical_addr, process_id)],
     res |-> "Ok"]

MapVirtualResult_Prepends(st, process_id, mapping) ==
    [st |-> [st EXCEPT
                !.virtual_mappings =
                    MapInsert(@, process_id, <<mapping>> \o MappingsOf(@, process_id))],
     res |-> "Ok"]

MapVirtualResult(st, process_id, mapping) ==
    [st |-> [st EXCEPT
                !.virtual_mappings =
                    MapInsert(@, process_id, Append(MappingsOf(@, process_id), mapping))],
     res |-> "Ok"]

map_virtual(process_id, virtual_addr, physical_addr, size, protection) ==
    LET mapping == VirtualMapping(virtual_addr, physical_addr, size, protection)
        r == MapVirtualResult(State, process_id, mapping)
    IN  Return(r.st, Call("map_virtual", process_id, size,
                          MemoryRegion(physical_addr, size), r.res))

MapVirtual(process_id, virtual_addr, physical_addr, size, protection) ==
    /\ CanCall
    /\ map_virtual(process_id, virtual_addr, physical_addr, size, protection)

\* --------------------------------------------- translate_address (235-253)
Some(addr) == [res |-> "Some", addr |-> addr]
None == [res |-> "None", addr |-> 0]
Panicked == [res |-> "panic", addr |-> 0]

\* the loop of lines 243-250: the first mapping whose range holds the
\* address; the end of the range and the physical address are sums of the
\* machine word
RECURSIVE FirstMatch(_, _, _)
FirstMatch(process_mappings, virtual_addr, checks) ==
    IF process_mappings = <<>>
    THEN None
    ELSE
    LET mapping == Head(process_mappings)
        end == mapping.virtual_addr + mapping.size
        physical == mapping.physical_addr + (virtual_addr - mapping.virtual_addr)
    IN  IF virtual_addr < mapping.virtual_addr
        THEN FirstMatch(Tail(process_mappings), virtual_addr, checks)
        ELSE IF checks /\ end > USIZE_MAX
        THEN Panicked
        ELSE IF ~(virtual_addr < end % USIZE_MOD)
        THEN FirstMatch(Tail(process_mappings), virtual_addr, checks)
        ELSE IF checks /\ physical > USIZE_MAX
        THEN Panicked
        ELSE Some(physical % USIZE_MOD)

translate_address(table, process_id, virtual_addr, checks) ==
    IF process_id \notin DOMAIN table
    THEN None
    ELSE FirstMatch(table[process_id], virtual_addr, checks)

\* the call of translate_address: it returns the translation, or panics
TranslateAddress(process_id, virtual_addr) ==
    LET r == translate_address(virtual_mappings, process_id, virtual_addr,
                               overflow_checks)
    IN  Return(State, Query("translate_address", process_id, virtual_addr,
                            IF r = Panicked THEN "panic" ELSE "Ok", r))

\* ------------------------------------------------------- queries (256-284)
Stats ==
    Return(State, Query("stats", 0, 0, "Ok", stats(total_memory, State)))

ProcessMemoryOf(process_id) ==
    Return(State, Query("process_memory", process_id, 0, "Ok",
                        [bytes |-> ProcessMemory(allocated_regions, process_id)]))

ListProcesses ==
    Return(State, Query("list_processes", 0, 0, "Ok",
                        [processes |-> list_processes(allocated_regions)]))

\* ------------------------------------------------------------- inputs
\* request sizes: zero, within a page, page multiples, one past a multiple,
\* more than any pool holds, and the sizes whose rounding reaches the top of
\* the machine word
RequestSizes ==
    {0, 1, PAGE_SIZE + 1, 3 * PAGE_SIZE, USIZE_MAX - PAGE_SIZE + 1, USIZE_MAX}

\* regions a caller may pass to free: any region of the ledger (its own or
\* another process's) and two it may never have been given
LedgerRegions ==
    UNION { { allocated_regions[p][i] : i \in DOMAIN allocated_regions[p] } :
            p \in DOMAIN allocated_regions }

FreeInputs ==
    LedgerRegions \cup {MemoryRegion(0, PAGE_SIZE), MemoryRegion(PAGE_SIZE, 2 * PAGE_SIZE),
                        MemoryRegion(0, 2 * PAGE_SIZE)}

Next ==
    \/ \E p \in ProcessId, size \in RequestSizes : Allocate(p, size)
    \/ \E p \in ProcessId, region \in FreeInputs : Free(p, region)
    \/ \E p \in ProcessId : FreeAll(p)

Spec == Init /\ [][Next]_vars

\* the sizes of ordinary requests: one page and two pages
SetupSizes == {1, PAGE_SIZE + 1}

\* ------------------------------------------------- calls with mappings
\* The single caller allocates, frees what the ledger holds, tears
\* processes down and maps, at one virtual address, the first page of the
\* pool or the two pages after it, whoever owns them.
MappingInputs ==
    {VirtualMapping(4 * PAGE_SIZE, 0, PAGE_SIZE, read_write),
     VirtualMapping(4 * PAGE_SIZE, PAGE_SIZE, 2 * PAGE_SIZE, read_only)}

VmNext ==
    \/ \E p \in ProcessId, size \in SetupSizes : Allocate(p, size)
    \/ \E p \in ProcessId :
            \E region \in RegionsOf(allocated_regions, p) : Free(p, region)
    \/ \E p \in ProcessId : FreeAll(p)
    \/ \E p \in ProcessId, m \in MappingInputs :
            /\ Len(MappingsOf(virtual_mappings, p)) < MaxMappings
            /\ MapVirtual(p, m.virtual_addr, m.physical_addr, m.size, m.protection)

VmSpec == Init /\ [][VmNext]_vars

\* ------------------------------------------------- mapping and translating
\* One process maps, the other has no mappings, and both translate.  The
\* ranges are those of MappingInputs and two that cover the last page of the
\* address space: one ends with the address space (its end is one past the
\* largest address), one an address earlier.
Mapper == 1

TopMappings ==
    {VirtualMapping(USIZE_MAX - PAGE_SIZE + 1, 0, PAGE_SIZE, read_execute),
     VirtualMapping(USIZE_MAX - PAGE_SIZE + 1, PAGE_SIZE, PAGE_SIZE - 1, read_only)}

\* addresses to translate: the first and the last address of every range,
\* the addresses next to them, and the ends of the address space
MapProbes ==
    ({0, USIZE_MAX} \cup
     UNION { {m.virtual_addr - 1, m.virtual_addr, m.virtual_addr + m.size - 1,
              m.virtual_addr + m.size} : m \in MappingInputs \cup TopMappings })
    \cap (0 .. USIZE_MAX)

MapNext ==
    \/ \E m \in MappingInputs \cup TopMappings :
            /\ Len(MappingsOf(virtual_mappings, Mapper)) < MaxMappings
            /\ MapVirtual(Mapper, m.virtual_addr, m.physical_addr, m.size, m.protection)
    \/ \E p \in ProcessId, v \in MapProbes : CanCall /\ TranslateAddress(p, v)

MapSpec == Init /\ [][MapNext]_vars

\* ------------------------------------------------- every call of the API
\* The single caller makes every call of the manager: it allocates one or
\* two pages, frees any region of the ledger (its own or another
\* process's), tears processes down, maps, translates and asks the three
\* queries.
QueryMapping == VirtualMapping(4 * PAGE_SIZE, 0, PAGE_SIZE, read_write)

QueryProbes == {0, 4 * PAGE_SIZE}

QueryNext ==
    \/ \E p \in ProcessId, size \in SetupSizes : Allocate(p, size)
    \/ \E p \in ProcessId, region \in LedgerRegions : Free(p, region)
    \/ \E p \in ProcessId : FreeAll(p)
    \/ \E p \in ProcessId :
            /\ Len(MappingsOf(virtual_mappings, p)) < MaxMappings
            /\ MapVirtual(p, QueryMapping.virtual_addr, QueryMapping.physical_addr,
                          QueryMapping.size, QueryMapping.protection)
    \/ \E p \in ProcessId, v \in QueryProbes : CanCall /\ TranslateAddress(p, v)
    \/ CanCall /\ Stats
    \/ \E p \in ProcessId : CanCall /\ ProcessMemoryOf(p)
    \/ CanCall /\ ListProcesses

QuerySpec == Init /\ [][QueryNext]_vars

\* ---------------------------------------------------- one process, long runs
\* One process allocates one or two pages at a time and frees regions it
\* holds, for more calls than Spec allows: the free list is reordered by
\* the frees and the later allocations take what the earlier ones left.
DeepProcess == 1

DeepCanCall ==
    /\ last.res # "panic"
    /\ calls < MaxDeep
    /\ \A t \in Threads : pc[t] = "idle"

DeepAllocate(size) == DeepCanCall /\ allocate(DeepProcess, size)

DeepFree(region) == DeepCanCall /\ free(DeepProcess, region)

DeepNext ==
    \/ \E size \in SetupSizes : DeepAllocate(size)
    \/ \E region \in RegionsOf(allocated_regions, DeepProcess) : DeepFree(region)

DeepSpec == Init /\ [][DeepNext]_vars

\* ------------------------------------------------ two processes, long runs
\* Two processes allocate one or two pages at a time and release what they
\* hold, region by region or all at once, for more calls than Spec allows:
\* a process can come to hold a region whose range runs over a page of
\* the other.
PairCanCall ==
    /\ last.res # "panic"
    /\ calls < MaxPair
    /\ \A t \in Threads : pc[t] = "idle"

PairAllocate(process_id, size) == PairCanCall /\ allocate(process_id, size)

PairFree(process_id, region) == PairCanCall /\ free(process_id, region)

PairFreeAll(process_id) == PairCanCall /\ free_all(process_id)

PairNext ==
    \/ \E p \in ProcessId, size \in SetupSizes : PairAllocate(p, size)
    \/ \E p \in ProcessId :
            \E region \in RegionsOf(allocated_regions, p) : PairFree(p, region)
    \/ \E p \in ProcessId : PairFreeAll(p)

PairSpec == Init /\ [][PairNext]_vars

\* ------------------------------------------------- concurrent allocate
\* Two threads call allocate at the same time, after the single caller has
\* brought the manager to some state.  A thread takes one step per mutex it
\* locks: between two lock() calls it touches only data whose mutex it
\* holds.  The guards live until the call returns or panics; a panic
\* releases them and poisons their mutexes, and lock().unwrap() on a
\* poisoned mutex panics.
Held(t) == { m \in Mutexes : owner[m] = t }

Release(t) == [m \in Mutexes |-> IF owner[m] = t THEN 0 ELSE owner[m]]

Unchanged5 ==
    UNCHANGED <<free_memory, allocated_regions, virtual_mappings, free_pages, used_pages>>

\* the call returns: its guards are dropped
Returns(t, res, region) ==
    /\ pc' = [pc EXCEPT ![t] = "done"]
    /\ ret' = [ret EXCEPT ![t] = [res |-> res, region |-> region]]
    /\ owner' = Release(t)
    /\ UNCHANGED <<frame, poisoned>>

\* the thread panics: unwinding drops its guards and poisons their mutexes
Panics(t) ==
    /\ pc' = [pc EXCEPT ![t] = "panicked"]
    /\ ret' = [ret EXCEPT ![t] = [res |-> "panic", region |-> NoRegion]]
    /\ poisoned' = poisoned \cup Held(t)
    /\ owner' = Release(t)
    /\ UNCHANGED frame

\* lock() at the given step succeeds and the thread goes on to `to`
Locks(t, m, to) ==
    /\ pc' = [pc EXCEPT ![t] = to]
    /\ owner' = [owner EXCEPT ![m] = t]
    /\ UNCHANGED <<ret, poisoned>>

ConcStep == UNCHANGED <<overflow_checks, total_memory, last, calls>>

\* lines 120-126: the zero check and the rounding, no lock held
AllocEnter(t, size) ==
    /\ pc[t] = "idle"
    /\ last.res # "panic"
    /\ ConcStep /\ Unchanged5
    /\ IF IsZeroRequest(size)
       THEN /\ Returns(t, "Cannot allocate zero bytes", NoRegion)
       ELSE IF overflow_checks /\ AlignOverflows(size)
       THEN /\ Panics(t)
       ELSE /\ pc' = [pc EXCEPT ![t] = "alloc_128"]
            /\ frame' = [frame EXCEPT ![t] =
                    [size |-> size, aligned_size |-> AlignedSize(size),
                     num_pages |-> AlignedSize(size) \div PAGE_SIZE, start_addr |-> 0]]
            /\ UNCHANGED <<ret, owner, poisoned>>

\* lines 128-131: lock free_memory, check the byte counter
AllocLockFreeMemory_NotHeld(t) ==
    /\ pc[t] = "alloc_128"
    /\ owner["free_memory"] = 0
    /\ ConcStep /\ Unchanged5
    /\ IF "free_memory" \in poisoned
       THEN Panics(t)
       ELSE IF free_memory < frame[t].aligned_size
       THEN Returns(t, "Out of memory", NoRegion)
       ELSE /\ pc' = [pc EXCEPT ![t] = "alloc_133"]
            /\ UNCHANGED <<frame, ret, owner, poisoned>>

AllocLockFreeMemory(t) ==
    /\ pc[t] = "alloc_128"
    /\ owner["free_memory"] = 0
    /\ ConcStep /\ Unchanged5
    /\ IF "free_memory" \in poisoned
       THEN Panics(t)
       ELSE IF free_memory < frame[t].aligned_size
       THEN Returns(t, "Out of memory", NoRegion)
       ELSE Locks(t, "free_memory", "alloc_133") /\ UNCHANGED frame

\* lines 133-139: lock free_pages, check the page count, take the first page
AllocLockFreePages(t) ==
    /\ pc[t] = "alloc_133"
    /\ owner["free_pages"] = 0
    /\ ConcStep
    /\ UNCHANGED <<free_memory, allocated_regions, virtual_mappings, used_pages>>
    /\ IF "free_pages" \in poisoned
       THEN Panics(t) /\ UNCHANGED free_pages
       ELSE IF Len(free_pages) < frame[t].num_pages
       THEN Returns(t, "Out of memory pages", NoRegion) /\ UNCHANGED free_pages
       ELSE IF free_pages = <<>>
       THEN /\ pc' = [pc EXCEPT ![t] = "panicked"]
            /\ ret' = [ret EXCEPT ![t] = [res |-> "panic", region |-> NoRegion]]
            /\ poisoned' = poisoned \cup Held(t) \cup {"free_pages"}
            /\ owner' = Release(t)
            /\ UNCHANGED <<frame, free_pages>>
       ELSE /\ Locks(t, "free_pages", "alloc_140")
            /\ frame' = [frame EXCEPT ![t].start_addr = free_pages[1]]
            /\ free_pages' = Tail(free_pages)

\* lines 140-148: lock used_pages, mark the first page, take and mark the
\* other pages, decrement the byte counter
AllocLockUsedPages(t) ==
    /\ pc[t] = "alloc_140"
    /\ owner["used_pages"] = 0
    /\ ConcStep
    /\ UNCHANGED <<allocated_regions, virtual_mappings>>
    /\ IF "used_pages" \in poisoned
       THEN Panics(t) /\ UNCHANGED <<free_memory, free_pages, used_pages, frame>>
       ELSE LET more == FrontPages(free_pages, PagesTaken(frame[t].num_pages) - 1)
            IN  /\ Locks(t, "used_pages", "alloc_153")
                /\ used_pages' = MarkUsed(used_pages, <<frame[t].start_addr>> \o more, t)
                /\ free_pages' = SubSeq(free_pages, Len(more) + 1, Len(free_pages))
                /\ free_memory' = Debit(free_memory, frame[t].aligned_size)
                /\ UNCHANGED frame

\* lines 150-156: lock allocated_regions, record the region, return it
AllocLockAllocated(t) ==
    /\ pc[t] = "alloc_153"
    /\ owner["allocated_regions"] = 0
    /\ ConcStep
    /\ UNCHANGED <<free_memory, virtual_mappings, free_pages, used_pages>>
    /\ IF "allocated_regions" \in poisoned
       THEN Panics(t) /\ UNCHANGED allocated_regions
       ELSE LET region == MemoryRegion(frame[t].start_addr, frame[t].aligned_size)
            IN  /\ allocated_regions' = Record(allocated_regions, t, region)
                /\ Returns(t, "Ok", region)

\* the calls of the single caller that bring the manager to its state
\* before the threads start
Setup ==
    /\ calls < MaxSetup
    /\ \/ \E p \in ProcessId, size \in SetupSizes : Allocate(p, size)
       \/ \E p \in DOMAIN allocated_regions :
            \E i \in DOMAIN allocated_regions[p] : Free(p, allocated_regions[p][i])
       \/ \E p \in ProcessId : FreeAll(p)

ConcSizes == {1, PAGE_SIZE + 1, USIZE_MAX}

ConcNext ==
    \/ Setup
    \/ \E t \in Threads, size \in ConcSizes : AllocEnter(t, size)
    \/ \E t \in Threads : AllocLockFreeMemory(t)
    \/ \E t \in Threads : AllocLockFreePages(t)
    \/ \E t \in Threads : AllocLockUsedPages(t)
    \/ \E t \in Threads : AllocLockAllocated(t)

ConcSpec == Init /\ [][ConcNext]_vars

\* ------------------------------------ concurrent free, free_all and stats
\* A thread at "op_N" is about to execute the lock() of line N.  Thread t
\* calls for process t.

\* the thread panics at a lock() it has just taken: that mutex is poisoned
\* with the ones it held
PanicsHolding(t, m) ==
    /\ pc' = [pc EXCEPT ![t] = "panicked"]
    /\ ret' = [ret EXCEPT ![t] = [res |-> "panic", region |-> NoRegion]]
    /\ poisoned' = poisoned \cup Held(t) \cup {m}
    /\ owner' = Release(t)
    /\ UNCHANGED frame

\* line 160: free is called
FreeEnter(t, region) ==
    /\ pc[t] = "idle"
    /\ last.res # "panic"
    /\ ConcStep /\ Unchanged5
    /\ pc' = [pc EXCEPT ![t] = "free_161"]
    /\ frame' = [frame EXCEPT ![t] = [region |-> region]]
    /\ UNCHANGED <<ret, owner, poisoned>>

\* lines 161-170: lock allocated_regions, find the region and remove it
FreeLockAllocated(t) ==
    /\ pc[t] = "free_161"
    /\ owner["allocated_regions"] = 0
    /\ ConcStep
    /\ UNCHANGED <<free_memory, virtual_mappings, free_pages, used_pages>>
    /\ IF "allocated_regions" \in poisoned
       THEN Panics(t) /\ UNCHANGED allocated_regions
       ELSE IF t \notin DOMAIN allocated_regions
       THEN Returns(t, "Process not found", NoRegion) /\ UNCHANGED allocated_regions
       ELSE LET pos == Position(allocated_regions[t], frame[t].region)
            IN  IF pos = 0
                THEN Returns(t, "Region not found", NoRegion) /\ UNCHANGED allocated_regions
                ELSE /\ allocated_regions' =
                            [allocated_regions EXCEPT ![t] = VecRemove(@, pos)]
                     /\ Locks(t, "allocated_regions", "free_171")
                     /\ UNCHANGED frame

\* line 171: lock free_pages
FreeLockFreePages(t) ==
    /\ pc[t] = "free_171"
    /\ owner["free_pages"] = 0
    /\ ConcStep /\ Unchanged5
    /\ IF "free_pages" \in poisoned
       THEN Panics(t)
       ELSE Locks(t, "free_pages", "free_172") /\ UNCHANGED frame

\* lines 172-178: lock used_pages, return the pages of the region
FreeLockUsedPages(t) ==
    /\ pc[t] = "free_172"
    /\ owner["used_pages"] = 0
    /\ ConcStep
    /\ UNCHANGED <<free_memory, allocated_regions, virtual_mappings>>
    /\ IF "used_pages" \in poisoned
       THEN Panics(t) /\ UNCHANGED <<free_pages, used_pages>>
       ELSE LET region == frame[t].region
                n == Iterations(region, overflow_checks)
                r == ReturnPages(free_pages, used_pages, region, n)
            IN  /\ free_pages' = r.fp
                /\ used_pages' = r.up
                /\ IF n < region.size \div PAGE_SIZE
                   THEN PanicsHolding(t, "used_pages")
                   ELSE Locks(t, "used_pages", "free_180") /\ UNCHANGED frame

\* lines 180-182: lock free_memory, add the size, return
FreeLockFreeMemory(t) ==
    /\ pc[t] = "free_180"
    /\ owner["free_memory"] = 0
    /\ ConcStep
    /\ UNCHANGED <<allocated_regions, virtual_mappings, free_pages, used_pages>>
    /\ IF "free_memory" \in poisoned
       THEN Panics(t) /\ UNCHANGED free_memory
       ELSE /\ free_memory' = Credit(free_memory, frame[t].region.size)
            /\ Returns(t, "Ok", NoRegion)

\* line 186: free_all is called
FreeAllEnter(t) ==
    /\ pc[t] = "idle"
    /\ last.res # "panic"
    /\ ConcStep /\ Unchanged5
    /\ pc' = [pc EXCEPT ![t] = "free_all_187"]
    /\ UNCHANGED <<frame, ret, owner, poisoned>>

\* lines 187-188: lock allocated_regions, take the regions of the process
FreeAllLockAllocated(t) ==
    /\ pc[t] = "free_all_187"
    /\ owner["allocated_regions"] = 0
    /\ ConcStep
    /\ UNCHANGED <<free_memory, virtual_mappings, free_pages, used_pages>>
    /\ IF "allocated_regions" \in poisoned
       THEN Panics(t) /\ UNCHANGED allocated_regions
       ELSE IF t \notin DOMAIN allocated_regions
       THEN Returns(t, "Process not found", NoRegion) /\ UNCHANGED allocated_regions
       ELSE /\ allocated_regions' = Forget(allocated_regions, t)
            /\ frame' = [frame EXCEPT ![t] =
                    [regions |-> allocated_regions[t], total_freed |-> 0]]
            /\ Locks(t, "allocated_regions", "free_all_190")

\* line 190: lock free_pages
FreeAllLockFreePages(t) ==
    /\ pc[t] = "free_all_190"
    /\ owner["free_pages"] = 0
    /\ ConcStep /\ Unchanged5
    /\ IF "free_pages" \in poisoned
       THEN Panics(t)
       ELSE Locks(t, "free_pages", "free_all_191") /\ UNCHANGED frame

\* lines 191-202: lock used_pages, return the pages of every region
FreeAllLockUsedPages(t) ==
    /\ pc[t] = "free_all_191"
    /\ owner["used_pages"] = 0
    /\ ConcStep
    /\ UNCHANGED <<free_memory, allocated_regions, virtual_mappings>>
    /\ IF "used_pages" \in poisoned
       THEN Panics(t) /\ UNCHANGED <<free_pages, used_pages>>
       ELSE LET r == ReturnAll(frame[t].regions, free_pages, used_pages, 0,
                               overflow_checks)
            IN  /\ free_pages' = r.fp
                /\ used_pages' = r.up
                /\ IF r.panic
                   THEN PanicsHolding(t, "used_pages")
                   ELSE /\ Locks(t, "used_pages", "free_all_204")
                        /\ frame' = [frame EXCEPT ![t].total_freed = r.total_freed]

\* line 204: lock free_memory for the one statement, add the total
FreeAllLockFreeMemory(t) ==
    /\ pc[t] = "free_all_204"
    /\ owner["free_memory"] = 0
    /\ ConcStep
    /\ UNCHANGED <<allocated_regions, virtual_mappings, free_pages, used_pages>>
    /\ IF "free_memory" \in poisoned
       THEN Panics(t) /\ UNCHANGED free_memory
       ELSE /\ free_memory' = Credit(free_memory, frame[t].total_freed)
            /\ pc' = [pc EXCEPT ![t] = "free_all_207"]
            /\ UNCHANGED <<frame, ret, owner, poisoned>>

\* lines 207-209: lock virtual_mappings for the one statement, remove the
\* mappings of the process, return
FreeAllLockMappings(t) ==
    /\ pc[t] = "free_all_207"
    /\ owner["virtual_mappings"] = 0
    /\ ConcStep
    /\ UNCHANGED <<free_memory, allocated_regions, free_pages, used_pages>>
    /\ IF "virtual_mappings" \in poisoned
       THEN Panics(t) /\ UNCHANGED virtual_mappings
       ELSE /\ virtual_mappings' = Unmap(virtual_mappings, t)
            /\ Returns(t, "Ok", NoRegion)

\* line 256: stats is called
StatsEnter(t) ==
    /\ pc[t] = "idle"
    /\ last.res # "panic"
    /\ ConcStep /\ Unchanged5
    /\ pc' = [pc EXCEPT ![t] = "stats_257"]
    /\ UNCHANGED <<frame, ret, owner, poisoned>>

\* lines 257-258: lock free_memory for the one statement, copy the counter
StatsLockFreeMemory(t) ==
    /\ pc[t] = "stats_257"
    /\ owner["free_memory"] = 0
    /\ ConcStep /\ Unchanged5
    /\ IF "free_memory" \in poisoned
       THEN Panics(t)
       ELSE /\ pc' = [pc EXCEPT ![t] = "stats_259"]
            /\ frame' = [frame EXCEPT ![t] = [free |-> free_memory, free_pages |-> 0]]
            /\ UNCHANGED <<ret, owner, poisoned>>

\* line 259: lock free_pages for the one statement, take the length
StatsLockFreePages(t) ==
    /\ pc[t] = "stats_259"
    /\ owner["free_pages"] = 0
    /\ ConcStep /\ Unchanged5
    /\ IF "free_pages" \in poisoned
       THEN Panics(t)
       ELSE /\ pc' = [pc EXCEPT ![t] = "stats_260"]
            /\ frame' = [frame EXCEPT ![t].free_pages = Len(free_pages)]
            /\ UNCHANGED <<ret, owner, poisoned>>

\* lines 260-270: lock used_pages for the one statement, take the length,
\* return the statistics
StatsLockUsedPages(t) ==
    /\ pc[t] = "stats_260"
    /\ owner["used_pages"] = 0
    /\ ConcStep /\ Unchanged5
    /\ IF "used_pages" \in poisoned
       THEN Panics(t)
       ELSE /\ pc' = [pc EXCEPT ![t] = "done"]
            /\ ret' = [ret EXCEPT ![t] =
                    [res |-> "Stats", region |-> NoRegion,
                     stats |-> MemoryStats(total_memory, frame[t].free,
                                           frame[t].free_pages,
                                           Cardinality(DOMAIN used_pages))]]
            /\ UNCHANGED <<frame, owner, poisoned>>

\* line 273: process_memory is called
ProcessMemoryEnter(t, process_id) ==
    /\ pc[t] = "idle"
    /\ last.res # "panic"
    /\ ConcStep /\ Unchanged5
    /\ pc' = [pc EXCEPT ![t] = "process_memory_274"]
    /\ frame' = [frame EXCEPT ![t] = [process_id |-> process_id]]
    /\ UNCHANGED <<ret, owner, poisoned>>

\* lines 274-279: lock allocated_regions, sum the sizes of the regions of
\* the process, return; the guard is dropped on return
ProcessMemoryLockAllocated(t) ==
    /\ pc[t] = "process_memory_274"
    /\ owner["allocated_regions"] = 0
    /\ ConcStep /\ Unchanged5
    /\ IF "allocated_regions" \in poisoned
       THEN Panics(t)
       ELSE /\ pc' = [pc EXCEPT ![t] = "done"]
            /\ ret' = [ret EXCEPT ![t] =
                    [res |-> "ProcessMemory", region |-> NoRegion,
                     process_id |-> frame[t].process_id,
                     bytes |-> ProcessMemory(allocated_regions, frame[t].process_id)]]
            /\ UNCHANGED <<frame, owner, poisoned>>

\* line 282: list_processes is called
ListProcessesEnter(t) ==
    /\ pc[t] = "idle"
    /\ last.res # "panic"
    /\ ConcStep /\ Unchanged5
    /\ pc' = [pc EXCEPT ![t] = "list_processes_283"]
    /\ UNCHANGED <<frame, ret, owner, poisoned>>

\* line 283: lock allocated_regions for the one statement, collect the keys
ListProcessesLockAllocated(t) ==
    /\ pc[t] = "list_processes_283"
    /\ owner["allocated_regions"] = 0
    /\ ConcStep /\ Unchanged5
    /\ IF "allocated_regions" \in poisoned
       THEN Panics(t)
       ELSE /\ pc' = [pc EXCEPT ![t] = "done"]
            /\ ret' = [ret EXCEPT ![t] =
                    [res |-> "Processes", region |-> NoRegion,
                     processes |-> list_processes(allocated_regions)]]
            /\ UNCHANGED <<frame, owner, poisoned>>

\* the allocations of the single caller before the threads start
Prior ==
    /\ calls < MaxPrior
    /\ \E p \in ProcessId, size \in SetupSizes : Allocate(p, size)

\* one step of a call of thread t
ThreadStep(t) ==
    \/ \E size \in SetupSizes : AllocEnter(t, size)
    \/ AllocLockFreeMemory(t)
    \/ AllocLockFreePages(t)
    \/ AllocLockUsedPages(t)
    \/ AllocLockAllocated(t)
    \/ \E region \in RegionsOf(allocated_regions, t) : FreeEnter(t, region)
    \/ FreeLockAllocated(t)
    \/ FreeLockFreePages(t)
    \/ FreeLockUsedPages(t)
    \/ FreeLockFreeMemory(t)
    \/ FreeAllEnter(t)
    \/ FreeAllLockAllocated(t)
    \/ FreeAllLockFreePages(t)
    \/ FreeAllLockUsedPages(t)
    \/ FreeAllLockFreeMemory(t)
    \/ FreeAllLockMappings(t)
    \/ StatsEnter(t)
    \/ StatsLockFreeMemory(t)
    \/ StatsLockFreePages(t)
    \/ StatsLockUsedPages(t)

LockNext ==
    \/ Prior
    \/ \E t \in Threads : ThreadStep(t)

LockSpec == Init /\ [][LockNext]_vars

\* the scheduler runs every thread that can take a step
FairLockSpec == LockSpec /\ \A t \in Threads : WF_vars(ThreadStep(t))

\* ------------------------------------------- queries during a teardown
\* After the allocations of the single caller each thread makes one call:
\* free_all for its process, process_memory for any process, or
\* list_processes.
LedgerStep(t) ==
    \/ FreeAllEnter(t)
    \/ FreeAllLockAllocated(t)
    \/ FreeAllLockFreePages(t)
    \/ FreeAllLockUsedPages(t)
    \/ FreeAllLockFreeMemory(t)
    \/ FreeAllLockMappings(t)
    \/ \E p \in ProcessId : ProcessMemoryEnter(t, p)
    \/ ProcessMemoryLockAllocated(t)
    \/ ListProcessesEnter(t)
    \/ ListProcessesLockAllocated(t)

LedgerNext ==
    \/ Prior
    \/ \E t \in Threads : LedgerStep(t)

LedgerSpec == Init /\ [][LedgerNext]_vars

\* ============================================================ properties
\* what a call returned
Returned == last.res # "panic"
IsCall(op) == calls' = calls + 1 /\ last'.op = op
Errors == {"Cannot allocate zero bytes", "Out of memory", "Out of memory pages",
           "Process not found", "Region not found"}

\* sum of the sizes of all regions of the ledger
RECURSIVE LedgerBytes(_, _)
LedgerBytes(ledger, procs) ==
    IF procs = {} THEN 0
    ELSE LET p == CHOOSE q \in procs : TRUE
         IN  SumSizes(ledger[p]) + LedgerBytes(ledger, procs \ {p})

OwnedBytes == LedgerBytes(allocated_regions, DOMAIN allocated_regions)

\* stats().used_memory (line 258)
UsedMemory == total_memory - free_memory

FreeSet == { free_pages[i] : i \in DOMAIN free_pages }
UsedSet == DOMAIN used_pages
AllPages == { i * PAGE_SIZE : i \in 0 .. (total_memory \div PAGE_SIZE) - 1 }

\* the page addresses a region covers
Covers(region) == { region.start + i * PAGE_SIZE : i \in 0 .. (region.size \div PAGE_SIZE) - 1 }

\* the smallest multiple of PAGE_SIZE that is >= size, in the integers
RoundUp(size) == ((size + PAGE_SIZE - 1) \div PAGE_SIZE) * PAGE_SIZE

\* C1: after every allocate, free or free_all call that returned (Ok or Err),
\* free_memory plus the sizes of all regions of the ledger is total_memory,
\* and stats().used_memory is the sum of the sizes of the owned regions.
C1_BytesConserved ==
    Returned =>
        /\ free_memory + OwnedBytes = total_memory
        /\ UsedMemory = OwnedBytes

\* C1 witness: a free has returned Ok while other regions are still owned
C1_Witness ==
    /\ last.op = "free"
    /\ last.res = "Ok"
    /\ OwnedBytes > 0
    /\ Cardinality(DOMAIN allocated_regions) = 2

\* C2: after every successful operation the free pages and the used pages
\* are disjoint and together are exactly the pages of [0, total_memory).
C2_Partition ==
    last.res = "Ok" =>
        /\ FreeSet \cap UsedSet = {}
        /\ FreeSet \cup UsedSet = AllPages

\* C3: every page of every region recorded under p is in the used-page map
\* with owner p and is not in the free list.
C3_RegionPagesOwned ==
    Returned =>
        \A p \in DOMAIN allocated_regions :
            \A i \in DOMAIN allocated_regions[p] :
                \A a \in Covers(allocated_regions[p][i]) :
                    /\ a \in UsedSet
                    /\ used_pages[a] = p
                    /\ a \notin FreeSet

\* C5: the regions of the ledger are pairwise non-overlapping, within one
\* process and across processes.
C5_RegionsDisjoint ==
    Returned =>
        \A p, q \in DOMAIN allocated_regions :
            \A i \in DOMAIN allocated_regions[p], j \in DOMAIN allocated_regions[q] :
                (p # q \/ i # j) =>
                    Covers(allocated_regions[p][i]) \cap Covers(allocated_regions[q][j]) = {}

\* C6: a successful allocate(p, size), size > 0, returns a region whose size
\* is the smallest multiple of PAGE_SIZE >= size and whose start is a
\* multiple of PAGE_SIZE; every region of the ledger is page-aligned and a
\* whole number of pages.
C6_RoundedAndAligned ==
    /\ (last.op = "allocate" /\ last.res = "Ok" /\ last.size > 0) =>
            /\ last.region.size = RoundUp(last.size)
            /\ last.region.start % PAGE_SIZE = 0
    /\ Returned =>
            \A r \in LedgerRegions : r.start % PAGE_SIZE = 0 /\ r.size % PAGE_SIZE = 0

\* C7: allocate(p, size), size > 0, succeeds if and only if the page-rounded
\* size is <= the free memory (the needed pages <= the free pages), and
\* otherwise fails with an out-of-memory error.
C7_SucceedsIffFits ==
    [][(IsCall("allocate") /\ last'.size > 0) =>
            /\ (last'.res = "Ok") <=> (RoundUp(last'.size) <= free_memory)
            /\ (last'.res = "Ok") <=>
                    (RoundUp(last'.size) \div PAGE_SIZE <= Len(free_pages))
            /\ last'.res \in {"Ok", "Out of memory", "Out of memory pages"}]_vars

\* C8: an allocate that requests more memory than is available fails with
\* an out-of-memory error and leaves the manager as it was.
C8_TooLargeFails ==
    [][(IsCall("allocate") /\ last'.size > free_memory) =>
            /\ last'.res \in {"Out of memory", "Out of memory pages"}
            /\ UNCHANGED mgr]_vars

\* C9: allocate(p, 0) fails with the invalid-argument error in any state and
\* changes nothing of the manager.
C9_ZeroRejected ==
    [][(IsCall("allocate") /\ last'.size = 0) =>
            /\ last'.res = "Cannot allocate zero bytes"
            /\ UNCHANGED mgr]_vars

\* C9 witness: allocate(p, 0) has been called while free pages and owned
\* regions both exist
C9_Witness ==
    /\ last.op = "allocate"
    /\ last.size = 0
    /\ free_pages # <<>>
    /\ last.pid \in DOMAIN allocated_regions

\* C10: a free or free_all that returns an error leaves the free list, the
\* used-page map, the free-byte counter, the ledger and the mapping table
\* unchanged.
C10_FailedReleaseNoEffect ==
    [][((IsCall("free") \/ IsCall("free_all")) /\ last'.res \in Errors) =>
            UNCHANGED <<free_pages, used_pages, free_memory, allocated_regions,
                        virtual_mappings>>]_vars

\* C10 witness: a free has failed with "Region not found" for a process
\* that owns regions
C10_Witness ==
    /\ last.op = "free"
    /\ last.res = "Region not found"
    /\ allocated_regions[last.pid] # <<>>

NotFound == {"Process not found", "Region not found"}

\* a thread is inside a call
InCall(t) == pc[t] \notin {"idle", "done", "panicked"}

\* C11: every call a thread has started eventually returns (or panics),
\* when every thread that can take a step is scheduled.
C11_EveryCallReturns ==
    \A t \in Threads : InCall(t) ~> ~InCall(t)

\* C12: the statistics a stats() call returns, once the call of the other
\* thread has returned too, are those of the manager before the threads
\* started or those of the manager now.
C12_StatsSnapshot ==
    \A t \in Threads :
        (/\ ret[t].res = "Stats"
         /\ \A u \in Threads : pc[u] \in {"idle", "done"}) =>
            ret[t].stats \in {last.stats, stats(total_memory, State)}

\* C13: when r = allocate(p, size) has succeeded and the next call free(p, r)
\* succeeds, exactly the pages of r are added to the free list, free_memory
\* is what it was before the allocate, and allocate(p, r.size) would succeed.
C13_FreeRestoresCapacity ==
    [][(/\ last.op = "allocate" /\ last.res = "Ok"
        /\ IsCall("free") /\ last'.res = "Ok"
        /\ last'.pid = last.pid /\ last'.region = last.region) =>
            /\ FreeSet' = FreeSet \cup Covers(last.region)
            /\ Len(free_pages') = Len(free_pages) + last.region.size \div PAGE_SIZE
            /\ free_memory' = last.before.free_memory
            /\ AllocateResult(State', last.pid, last.region.size,
                              overflow_checks).res = "Ok"]_vars

\* C14: a free_all(p) that returns Ok leaves process_memory(p) = 0 and
\* raises free_memory by exactly the sum of the sizes of p's regions.
C14_FreeAllReleasesAll ==
    [][(IsCall("free_all") /\ last'.res = "Ok") =>
            /\ ProcessMemory(allocated_regions', last'.pid) = 0
            /\ free_memory' =
                    free_memory + ProcessMemory(allocated_regions, last'.pid)]_vars

\* C14 witness: free_all(p) has returned Ok for a process that held two
\* pages or more, while another process still owns regions
C14_Witness ==
    /\ last.op = "free_all"
    /\ last.res = "Ok"
    /\ last.before.process_memory >= 2 * PAGE_SIZE
    /\ free_memory = last.before.free_memory + last.before.process_memory
    /\ OwnedBytes > 0

\* C15: free(q, r) for a region r recorded under another process p and not
\* under q fails with a not-found error, r stays recorded under p and the
\* used-page map and the free list keep their entries.
C15_WrongOwnerRejected ==
    [][(/\ IsCall("free")
        /\ last'.region \notin RegionsOf(allocated_regions, last'.pid)
        /\ \E p \in ProcessId \ {last'.pid} :
                last'.region \in RegionsOf(allocated_regions, p)) =>
            /\ last'.res \in NotFound
            /\ UNCHANGED <<allocated_regions, used_pages, free_pages, free_memory>>]_vars

\* C15 witness: free(q, r) has failed with "Region not found" while q owns a
\* region of the same size as r and r is recorded under the other process
C15_Witness ==
    /\ last.op = "free"
    /\ last.res = "Region not found"
    /\ last.region \notin RegionsOf(allocated_regions, last.pid)
    /\ \E r \in RegionsOf(allocated_regions, last.pid) : r.size = last.region.size
    /\ \E p \in ProcessId \ {last.pid} : last.region \in RegionsOf(allocated_regions, p)

\* C16: once free(p, r) has returned Ok, a free(p, r) called again with no
\* allocate in between fails with a not-found error; so does free(p, r)
\* called right after a free_all(p) that returned Ok.
C16_DoubleFreeRejected ==
    [][(/\ last.op \in {"free", "free_all"} /\ last.res = "Ok"
        /\ IsCall("free") /\ last'.pid = last.pid
        /\ (last.op = "free" => last'.region = last.region)) =>
            last'.res \in NotFound]_vars

\* C17: free(p, r) with r equal to no region recorded under p fails with a
\* not-found error and removes nothing; when r equals a recorded region,
\* exactly one entry, equal to r, leaves p's list.
C17_ExactMatchOnly ==
    [][IsCall("free") =>
            IF last'.region \notin RegionsOf(allocated_regions, last'.pid)
            THEN /\ last'.res \in NotFound
                 /\ UNCHANGED mgr
            ELSE \E pos \in DOMAIN allocated_regions[last'.pid] :
                    /\ allocated_regions[last'.pid][pos] = last'.region
                    /\ allocated_regions' =
                            [allocated_regions EXCEPT ![last'.pid] = VecRemove(@, pos)]]_vars

\* C17 witness: free(p, r) has failed for r the union of two adjacent regions
\* that are separate entries of p's list
C17_Witness ==
    /\ last.op = "free"
    /\ last.res = "Region not found"
    /\ last.region = MemoryRegion(0, 2 * PAGE_SIZE)
    /\ MemoryRegion(0, PAGE_SIZE) \in RegionsOf(allocated_regions, last.pid)
    /\ MemoryRegion(PAGE_SIZE, PAGE_SIZE) \in RegionsOf(allocated_regions, last.pid)

\* C18: free_all(p) called again right after a free_all(p) that returned Ok
\* (so p has had a successful allocate) returns Ok.
C18_SecondFreeAllSucceeds ==
    [][(/\ last.op = "free_all" /\ last.res = "Ok"
        /\ IsCall("free_all") /\ last'.pid = last.pid) =>
            last'.res = "Ok"]_vars

\* addresses to translate: the first and the last address of every range
\* that is ever mapped, the address after it, and the ends of the address space
ProbeAddrs ==
    {0, USIZE_MAX} \cup
    UNION { {m.virtual_addr, m.virtual_addr + m.size - 1,
             (m.virtual_addr + m.size) % USIZE_MOD} : m \in MappingInputs }

\* translate_address(p, v) is None for every v
Untranslated(table, process_id) ==
    \A v \in ProbeAddrs :
        translate_address(table, process_id, v, overflow_checks) = None

\* C19: after a free_all(p) that returns Ok, translate_address(p, v) is None
\* for every v, and stays None through every call that is not a
\* map_virtual for p.
C19_NoMappingsAfterFreeAll ==
    [][/\ (IsCall("free_all") /\ last'.res = "Ok") =>
                Untranslated(virtual_mappings', last'.pid)
       /\ \A p \in ProcessId :
            (/\ calls' = calls + 1
             /\ Untranslated(virtual_mappings, p)
             /\ ~(last'.op = "map_virtual" /\ last'.pid = p)) =>
                Untranslated(virtual_mappings', p)]_vars

\* C19 witness: free_all(p) has returned Ok for a process that had two
\* mappings, while the other process keeps its own
C19_Witness ==
    /\ last.op = "free_all"
    /\ last.res = "Ok"
    /\ last.before.mappings = 2
    /\ \E q \in ProcessId \ {last.pid} : ~Untranslated(virtual_mappings, q)

\* C20: map_virtual returns Ok and leaves the free list, the used-page map,
\* the free-byte counter and the ledger unchanged; a free_all of a process
\* that holds no memory removes its mappings and leaves the free list, the
\* used-page map and the free-byte counter unchanged.
C20_MappingsAreMetadata ==
    [][/\ IsCall("map_virtual") =>
            /\ last'.res = "Ok"
            /\ UNCHANGED <<free_pages, used_pages, free_memory, allocated_regions>>
       /\ (/\ IsCall("free_all") /\ last'.res = "Ok"
           /\ ProcessMemory(allocated_regions, last'.pid) = 0) =>
            UNCHANGED <<free_pages, used_pages, free_memory>>]_vars

\* C20 witness: map_virtual has mapped a physical page that is not marked
\* used by the caller: it is free, or used by the other process
C20_Witness ==
    /\ last.op = "map_virtual"
    /\ last.res = "Ok"
    /\ last.region.start \in AllPages
    /\ \/ last.region.start \in FreeSet
       \/ /\ last.region.start \in UsedSet
          /\ used_pages[last.region.start] # last.pid

\* C21: map_virtual returns Ok for any process and any ranges, puts exactly
\* one mapping, the one it was called with, at the end of the list of the
\* process, and leaves the earlier mappings and the lists of the other
\* processes as they were.
C21_MapAppends ==
    [][IsCall("map_virtual") =>
        LET old == MappingsOf(virtual_mappings, last'.pid)
            now == MappingsOf(virtual_mappings', last'.pid)
        IN  /\ last'.res = "Ok"
            /\ Len(now) = Len(old) + 1
            /\ SubSeq(now, 1, Len(old)) = old
            /\ now[Len(now)] \in MappingInputs
            /\ now[Len(now)].physical_addr = last'.region.start
            /\ now[Len(now)].size = last'.region.size
            /\ \A q \in ProcessId \ {last'.pid} :
                    MappingsOf(virtual_mappings', q) = MappingsOf(virtual_mappings, q)]_vars

\* C21 witness: map_virtual has returned Ok for a process with no ledger
\* entry, over the virtual range of a mapping it already had, onto a page
\* used by the other process
C21_Witness ==
    /\ last.op = "map_virtual"
    /\ last.res = "Ok"
    /\ last.pid \notin DOMAIN allocated_regions
    /\ last.before.mappings = 1
    /\ Len(MappingsOf(virtual_mappings, last.pid)) = 2
    /\ virtual_mappings[last.pid][1] # virtual_mappings[last.pid][2]
    /\ last.region.start \in UsedSet
    /\ used_pages[last.region.start] # last.pid

\* the mappings of a list whose range [virtual_addr, virtual_addr + size)
\* holds the address, by their place in the list
Covering(process_mappings, v) ==
    { i \in DOMAIN process_mappings :
        /\ process_mappings[i].virtual_addr <= v
        /\ v < process_mappings[i].virtual_addr + process_mappings[i].size }

\* the translation of an address by a mapping
Translation(mapping, v) == Some(mapping.physical_addr + (v - mapping.virtual_addr))

\* C22: translate_address(p, v) is Some(pa + (v - va)) when exactly one
\* mapping of p covers v, (va, pa) being that mapping, and None when no
\* mapping of p covers v: at va + size, below va, and for a process that
\* has no mappings.
C22_TranslateInRange ==
    [][IsCall("translate_address") =>
        LET ms == MappingsOf(virtual_mappings, last'.pid)
            covering == Covering(ms, last'.size)
        IN  /\ covering = {} => last'.value = None
            /\ \A i \in covering :
                    covering = {i} => last'.value = Translation(ms[i], last'.size)]_vars

\* C23: when several mappings of p cover v, translate_address(p, v) is the
\* translation by the earliest of them; a map_virtual does not change the
\* translation of an address that had one.
C23_FirstMatchWins ==
    [][/\ IsCall("translate_address") =>
            LET ms == MappingsOf(virtual_mappings, last'.pid)
                covering == Covering(ms, last'.size)
            IN  \A i \in covering :
                    (Cardinality(covering) > 1 /\ \A j \in covering : i <= j) =>
                        last'.value = Translation(ms[i], last'.size)
       /\ IsCall("map_virtual") =>
            \A v \in MapProbes :
                LET was == translate_address(virtual_mappings, last'.pid, v,
                                             overflow_checks)
                IN  was.res = "Some" =>
                        translate_address(virtual_mappings', last'.pid, v,
                                          overflow_checks) = was]_vars

\* C24: process_memory(p) grows by the page-rounded size with every
\* successful allocate of p, shrinks by the size of the region with every
\* successful free of p, is 0 after a successful free_all(p) and for a
\* process with no entry, and is not changed by any other call.
C24_ProcessMemory ==
    [][calls' = calls + 1 =>
        \A p \in ProcessId :
            /\ p \notin DOMAIN allocated_regions =>
                    ProcessMemory(allocated_regions, p) = 0
            /\ ProcessMemory(allocated_regions', p) =
                    IF last'.pid = p /\ last'.res = "Ok" /\ last'.op = "allocate"
                    THEN ProcessMemory(allocated_regions, p) + RoundUp(last'.size)
                    ELSE IF last'.pid = p /\ last'.res = "Ok" /\ last'.op = "free"
                    THEN ProcessMemory(allocated_regions, p) - last'.region.size
                    ELSE IF last'.pid = p /\ last'.res = "Ok" /\ last'.op = "free_all"
                    THEN 0
                    ELSE ProcessMemory(allocated_regions, p)]_vars

\* C25: list_processes() is exactly the set of the processes that own at
\* least one region, and process_memory(p) > 0 for every listed p.
C25_ListedOwnRegions ==
    Returned =>
        /\ list_processes(allocated_regions) =
                { p \in ProcessId : RegionsOf(allocated_regions, p) # {} }
        /\ \A p \in list_processes(allocated_regions) :
                ProcessMemory(allocated_regions, p) > 0

\* C26: a successful allocate that returns (s, n pages) takes exactly the
\* pages s, s + PAGE_SIZE, .., s + (n - 1) * PAGE_SIZE out of the free list
\* and marks them used by the caller.
C26_ContiguousRun ==
    [][(IsCall("allocate") /\ last'.res = "Ok") =>
        LET n == Len(free_pages) - Len(free_pages')
            taken == { free_pages[i] : i \in 1 .. n }
        IN  /\ n = last'.region.size \div PAGE_SIZE
            /\ taken = Covers(last'.region)
            /\ free_pages' = SubSeq(free_pages, n + 1, Len(free_pages))
            /\ \A a \in Covers(last'.region) :
                    a \in DOMAIN used_pages' /\ used_pages'[a] = last'.pid
            /\ DOMAIN used_pages' = DOMAIN used_pages \cup Covers(last'.region)]_vars

\* a percentage is the finite value num / den
IsPercent(x, num, den) == x = Percent(num, den)

\* the list of a process in the ledger, empty for a process it does not hold
Entry(ledger, process_id) ==
    IF process_id \in DOMAIN ledger THEN ledger[process_id] ELSE <<>>

\* the calls that only read
Queries == {"translate_address", "stats", "process_memory", "list_processes"}

\* the processes whose free_all has taken their regions out of the ledger
\* (line 188)
TornDown ==
    { t \in Threads : \/ pc[t] \in {"free_all_190", "free_all_191", "free_all_204",
                                     "free_all_207"}
                      \/ pc[t] \in {"done", "panicked"} /\ "regions" \in DOMAIN frame[t] }

\* C27: while free_all calls run, the ledger holds for every process all of
\* the regions it held before or none of them, process_memory(p) returns
\* the sum of all of them or 0, and list_processes() lists every process
\* that held regions except those torn down, never a partial state.
C27_TeardownAtomic ==
    /\ \A p \in ProcessId :
            Entry(allocated_regions, p) =
                IF p \in TornDown THEN <<>> ELSE Entry(last.ledger, p)
    /\ \A t \in Threads :
            /\ ret[t].res = "ProcessMemory" =>
                    ret[t].bytes \in {ProcessMemory(last.ledger, ret[t].process_id), 0}
            /\ ret[t].res = "Processes" =>
                    \E gone \in SUBSET TornDown :
                        ret[t].processes = list_processes(last.ledger) \ gone

\* process_memory(p) has returned the sum of the two regions of a process
\* whose free_all(p) has been called and has not returned
C27_Witness ==
    \E t \in Threads : \E p \in Threads \ {t} :
        /\ ret[t].res = "ProcessMemory"
        /\ ret[t].process_id = p
        /\ Len(Entry(last.ledger, p)) = 2
        /\ ret[t].bytes = ProcessMemory(last.ledger, p)
        /\ pc[p] = "free_all_187"

\* C28: a ledger entry is created only by a successful allocate (appended
\* to the caller's list), destroyed only by a successful free of that exact
\* region (one occurrence leaves the caller's list) or by free_all of its
\* process, and never mutated: every other list of the ledger, and the
\* whole ledger across every other call, stays as it was, and a query
\* changes no state at all.
C28_LedgerFrame ==
    [][calls' = calls + 1 =>
        LET p == last'.pid
            old == Entry(allocated_regions, p)
            new_ == Entry(allocated_regions', p)
            success == last'.res = "Ok"
        IN  /\ \A q \in ProcessId \ {p} :
                    /\ Entry(allocated_regions', q) = Entry(allocated_regions, q)
                    /\ q \in DOMAIN allocated_regions' <=> q \in DOMAIN allocated_regions
            /\ IF last'.op = "allocate" /\ success
               THEN new_ = Append(old, last'.region)
               ELSE IF last'.op = "free" /\ success
               THEN \E i \in DOMAIN old :
                        /\ old[i] = last'.region
                        /\ new_ = VecRemove(old, i)
               ELSE IF last'.op = "free_all" /\ success
               THEN new_ = <<>>
               ELSE allocated_regions' = allocated_regions
            /\ last'.op \in Queries =>
                    /\ free_memory' = free_memory
                    /\ allocated_regions' = allocated_regions
                    /\ virtual_mappings' = virtual_mappings
                    /\ free_pages' = free_pages
                    /\ used_pages' = used_pages]_vars

\* process_memory has returned more than a page for a process that holds
\* regions while another process holds regions too
C28_Witness ==
    /\ last.op = "process_memory"
    /\ last.value.bytes > PAGE_SIZE
    /\ \E q \in ProcessId \ {last.pid} : Len(Entry(allocated_regions, q)) > 0

\* C29: new(N) reports total_memory = N MB, free_memory = total_memory,
\* used_memory = 0, used_pages = 0, free_pages = total_pages =
\* total_memory / PAGE_SIZE, holds no region and no mapping, and its usage
\* percentage is 0.
C29_FreshManager ==
    last.op = "new" =>
        /\ last.stats.total_memory = last.size * BytesPerMB
        /\ last.stats.free_memory = last.stats.total_memory
        /\ last.stats.used_memory = 0
        /\ last.stats.used_pages = 0
        /\ last.stats.free_pages = last.stats.total_pages
        /\ last.stats.total_pages * PAGE_SIZE = last.stats.total_memory
        /\ last.stats = stats(total_memory, State)
        /\ allocated_regions = EmptyMap
        /\ virtual_mappings = EmptyMap
        /\ IsPercent(usage_percent(last.stats), 0, 1)

\* C30: the usage percentage of the statistics is used / total * 100, and
\* is 0 when total is 0.
C30_UsagePercent ==
    Returned =>
        LET st == stats(total_memory, State)
        IN  IF st.total_memory = 0
            THEN IsPercent(usage_percent(st), 0, 1)
            ELSE IsPercent(usage_percent(st), st.used_memory * 100, st.total_memory)

\* the pages a free or free_all call has pushed onto the free list
Pushed == { free_pages'[i] : i \in Len(free_pages) + 1 .. Len(free_pages') }

\* the pages covered by the regions recorded under a process
Owned(ledger, process_id) ==
    UNION { Covers(region) : region \in RegionsOf(ledger, process_id) }

\* C31: after every allocate, free or free_all call that returned,
\* free_memory is the number of entries of the free list times PAGE_SIZE,
\* so the byte check (line 129) and the page-count check (line 134) of
\* allocate fail for the same page counts.
C31_GuardsAgree ==
    Returned =>
        /\ free_memory = Len(free_pages) * PAGE_SIZE
        /\ \A num_pages \in 0 .. MaxMB + 1 :
                (free_memory < num_pages * PAGE_SIZE) <=> (Len(free_pages) < num_pages)

\* C32: after every call that returned, stats() has used_memory =
\* total_memory - free_memory and used_pages * PAGE_SIZE = used_memory.
C32_StatsUsedSide ==
    Returned =>
        LET st == stats(total_memory, State)
        IN  /\ st.used_memory = total_memory - free_memory
            /\ st.used_pages * PAGE_SIZE = st.used_memory

\* C33: free_all(p) for a process that owns no region returns the same
\* result in every state, the one it returns for a process that never
\* allocated (the not-found error of line 188), also when p released its
\* regions one by one with free or was torn down by an earlier free_all.
C33_FreeAllConsistent ==
    [][(IsCall("free_all") /\ RegionsOf(allocated_regions, last'.pid) = {}) =>
            last'.res = "Process not found"]_vars

\* C34: the mapping list of a process p changes only by map_virtual(p, ..),
\* which appends one mapping, and by a successful free_all(p), which clears
\* it; every other call (allocate, free, failed calls, the queries, and any
\* call for another process) leaves the list and translate_address(p, v)
\* for every v as they were.
C34_MappingFrame ==
    [][calls' = calls + 1 =>
        \A p \in ProcessId :
            LET old == MappingsOf(virtual_mappings, p)
                new_ == MappingsOf(virtual_mappings', p)
            IN  IF last'.op = "map_virtual" /\ last'.pid = p
                THEN /\ Len(new_) = Len(old) + 1
                     /\ SubSeq(new_, 1, Len(old)) = old
                ELSE IF last'.op = "free_all" /\ last'.pid = p /\ last'.res = "Ok"
                THEN new_ = <<>>
                ELSE /\ new_ = old
                     /\ \A v \in ProbeAddrs :
                            translate_address(virtual_mappings', p, v, overflow_checks) =
                            translate_address(virtual_mappings, p, v, overflow_checks)]_vars

\* a process has freed the region its mapping points into, and the mapping
\* still translates to the freed page, while the other process has a
\* mapping of the same virtual range
C34_Witness ==
    /\ last.op = "free"
    /\ last.res = "Ok"
    /\ \E v \in ProbeAddrs :
            LET r == translate_address(virtual_mappings, last.pid, v, overflow_checks)
            IN  /\ r.res = "Some"
                /\ r.addr \in Covers(last.region)
                /\ r.addr \in FreeSet
                /\ \E q \in ProcessId \ {last.pid} :
                        translate_address(virtual_mappings, q, v, overflow_checks).res = "Some"

\* C35: after every allocate, free or free_all call that returned, the
\* entries of the free list are strictly increasing.
C35_FreeListOrdered ==
    Returned =>
        \A i, j \in DOMAIN free_pages : i < j => free_pages[i] < free_pages[j]

\* C36: allocate(p, size) for any size >= 1 either fails with an
\* out-of-memory error or returns a region with region.size >= size; it
\* never returns a region of size 0 and never takes a page for a request
\* larger than total_memory.
C36_RoundingNeverWraps ==
    [][(IsCall("allocate") /\ last'.size >= 1) =>
            /\ last'.res \in {"Ok", "Out of memory", "Out of memory pages"}
            /\ last'.res = "Ok" =>
                    /\ last'.region.size >= last'.size
                    /\ last'.region.size # 0
            /\ last'.size > total_memory =>
                    /\ free_pages' = free_pages
                    /\ used_pages' = used_pages]_vars

\* C37: the free list never holds the same page address twice, and the
\* region a successful allocate returns shares no page with a region that
\* is recorded at the same time.
C37_NoDuplicateFreePage ==
    Returned =>
        /\ \A i, j \in DOMAIN free_pages : i # j => free_pages[i] # free_pages[j]
        /\ (last.op = "allocate" /\ last.res = "Ok") =>
                \A p \in DOMAIN allocated_regions :
                    \A i \in DOMAIN allocated_regions[p] :
                        \/ /\ p = last.pid
                           /\ i = Len(allocated_regions[p])
                        \/ Covers(allocated_regions[p][i]) \cap Covers(last.region) = {}

\* C38: after every call that returned, every page of the used-page map is
\* covered by a region recorded under the owner of the page; when the
\* ledger records no region the used-page map is empty and the free list
\* holds every page of [0, total_memory).
C38_NoPageLeaked ==
    Returned =>
        /\ \A a \in UsedSet : a \in Owned(allocated_regions, used_pages[a])
        /\ LedgerRegions = {} => (UsedSet = {} /\ FreeSet = AllPages)

\* C39: free(p, r) and free_all(p) remove from the used-page map only pages
\* whose recorded owner is p, and push onto the free list no page that lies
\* in a region still recorded under another process.
C39_ReleaseOwnPagesOnly ==
    [][(IsCall("free") \/ IsCall("free_all")) =>
            /\ \A a \in UsedSet \ DOMAIN used_pages' : used_pages[a] = last'.pid
            /\ \A q \in ProcessId \ {last'.pid} :
                    Pushed \cap Owned(allocated_regions', q) = {}]_vars

\* the call a thread has made, read off its frame and its result: free
\* keeps its region, free_all the regions it removed, allocate its size; a
\* free_all that found no entry has no frame
CallOf(t) ==
    IF "region" \in DOMAIN frame[t] THEN [op |-> "free", region |-> frame[t].region]
    ELSE IF "regions" \in DOMAIN frame[t] \/ ret[t].res = "Process not found"
    THEN [op |-> "free_all"]
    ELSE IF "size" \in DOMAIN frame[t] /\ frame[t].size > 0
    THEN [op |-> "allocate", size |-> frame[t].size]
    ELSE [op |-> "other"]

\* the call of thread t made alone on the manager st
Alone(st, t) ==
    LET call == CallOf(t)
    IN  IF call.op = "allocate"
        THEN AllocateResult(st, t, call.size, overflow_checks)
        ELSE IF call.op = "free"
        THEN [region |-> NoRegion] @@ FreeResult(st, t, call.region, overflow_checks)
        ELSE [region |-> NoRegion] @@ FreeAllResult(st, t, overflow_checks)

\* the calls of the threads of `order`, made one at a time in that order
\* from st, return what the threads got and end in the present state
RECURSIVE Serial(_, _)
Serial(st, order) ==
    IF order = <<>> THEN st = State
    ELSE LET t == Head(order)
             r == Alone(st, t)
         IN  /\ r.res = ret[t].res
             /\ r.region = ret[t].region
             /\ Serial(r.st, Tail(order))

\* the orders in which the threads of a set can run one after the other
Orders(threads) ==
    { order \in [1 .. Cardinality(threads) -> threads] :
        \A i, j \in DOMAIN order : i # j => order[i] # order[j] }

\* C40: when every allocate, free and free_all call the threads have made
\* has returned, the results of the calls and the state of the manager are
\* those of making the same calls one at a time, in some order, from the
\* state in which the threads started.
C40_Serializable ==
    LET called == { t \in Threads : pc[t] # "idle" }
    IN  (/\ \A t \in called :
                /\ pc[t] = "done"
                /\ CallOf(t).op \in {"allocate", "free", "free_all"}) =>
            \E order \in Orders(called) : Serial(last.after, order)

\* both threads have returned, one from a free that gave its page back
\* and one from an allocate that found no memory: alone after the free,
\* the allocate would have found the page
C40_Witness ==
    \E t \in Threads : \E u \in Threads \ {t} :
        /\ pc[t] = "done" /\ pc[u] = "done"
        /\ CallOf(t).op = "free" /\ ret[t].res = "Ok"
        /\ CallOf(u).op = "allocate" /\ ret[u].res = "Out of memory"
        /\ frame[u].aligned_size <= free_memory

\* C4: two allocate calls made at the same time by different processes
\* return regions whose address ranges [start, start + size) are disjoint.
C4_ConcurrentDisjoint ==
    \A t, u \in Threads :
        (t # u /\ ret[t].res = "Ok" /\ ret[u].res = "Ok") =>
            Covers(ret[t].region) \cap Covers(ret[u].region) = {}

====
